---- MODULE Spec2Model ----
(***************************************************************************)
(* Verification model of the EDU-ESP exercises of this repository.         *)
(*                                                                         *)
(* Digital oscilloscope (ADC to UART at 500 Hz, ECG playback through the   *)
(* DAC at 250 Hz): app_main, the two timer callbacks and AdcTask.          *)
(*                                                                         *)
(* Three execution contexts interleave: app_main (start-up), the timer     *)
(* interrupts (each callback is one atomic step) and AdcTask (one step     *)
(* per statement of its loop).                                             *)
(*                                                                         *)
(* Distance meter (HC-SR04 to LEDs and LCD) in its three versions: keys    *)
(* polled by TeclasTask, keys by interrupt with LedTask paced by a timer,  *)
(* and the latter with the serial port.                                    *)
(*                                                                         *)
(* Multiplexed display: convertToBcdArray.                                 *)
(*                                                                         *)
(* Each specification runs one program; the variables of the others keep   *)
(* their initial values.                                                   *)
(***************************************************************************)
EXTENDS Integers, Sequences, FiniteSets, TLC

(***************************************************************************)
(* Program constants                                                       *)
(***************************************************************************)
BUFFER_SIZE == 231

\* Full scale of the 12 bit converter, the divisor of the voltage conversion.
ADC_FULL_SCALE == 4095

\* char buffer[32] of AdcTask.
BUFFER_LEN == 32

\* The initializer of ecg[] as written in the source.  It lists more values
\* than BUFFER_SIZE; the array keeps the first BUFFER_SIZE of them.
ecg_initializer ==
  << 17, 17, 17, 17, 17, 17, 17, 17, 17, 17, 17, 18, 18, 18, 17, 17, 17, 17, 17, 17, 17, 18,
     18, 18, 18, 18, 18, 18, 17, 17, 16, 16, 16, 16, 17, 17, 18, 18, 18, 17, 17, 17, 17, 18,
     18, 19, 21, 22, 24, 25, 26, 27, 28, 29, 31, 32, 33, 34, 34, 35, 37, 38, 37, 34, 29, 24,
     19, 15, 14, 15, 16, 17, 17, 17, 16, 15, 14, 13, 13, 13, 13, 13, 13, 13, 12, 12, 10, 6, 2,
     3, 15, 43, 88, 145, 199, 237, 252, 242, 211, 167, 117, 70, 35, 16, 14, 22, 32, 38, 37, 32,
     27, 24, 24, 26, 27, 28, 28, 27, 28, 28, 30, 31, 31, 31, 32, 33, 34, 36, 38, 39, 40, 41,
     42, 43, 45, 47, 49, 51, 53, 55, 57, 60, 62, 65, 68, 71, 75, 79, 83, 87, 92, 97, 101, 106,
     111, 116, 121, 125, 129, 133, 136, 138, 139, 140, 140, 139, 137, 133, 129, 123, 117, 109,
     101, 92, 84, 77, 70, 64, 58, 52, 47, 42, 39, 36, 34, 31, 30, 28, 27, 26, 25, 25, 25, 25,
     25, 25, 25, 25, 24, 24, 24, 24, 25, 25, 25, 25, 25, 25, 25, 24, 24, 24, 24, 24, 24, 24,
     24, 23, 23, 22, 22, 21, 21, 21, 20, 20, 20, 20, 20, 19, 19, 18, 18, 18, 19, 19, 19, 19,
     18, 17, 17, 18, 18, 18, 18, 18, 18, 18, 18, 17, 17, 17, 17, 17, 17, 17 >>

\* unsigned char ecg[BUFFER_SIZE]; C index i is ecg[i + 1] here.
ecg == SubSeq(ecg_initializer, 1, BUFFER_SIZE)

(***************************************************************************)
(* Bounds of the model                                                     *)
(***************************************************************************)
\* Playback firings explored from start-up (more than one lap of the table).
MaxEcgFires == 234

\* Acquisition firings explored from start-up.
MaxAdcFires == 2

\* Playback firings followed from an arbitrary cursor position.
MaxLapFires == 232

\* Playback and acquisition firings explored when driver configuration may fail.
MaxBootFires == 2

\* Firings of each timer explored where the interleaving of the two
\* channels is followed step by step.
MaxChannelFires == 3

\* Acquisition and playback firings followed under fair scheduling.
MaxLiveFires == 3

MaxLiveEcgFires == 2

\* Distance meter: toggles of each flag, firings of its timer, cycles of
\* LedTask, polls of TeclasTask and changes of the switches explored.
MaxToggles == 3

MaxTimerFires == 3

MaxCycles == 3

MaxPolls == 3

MaxKeyChanges == 3

\* The digit counts convertToBcdArray is called with.
MaxBcdDigits == 12

\* The distances followed through one cycle of LedTask: 0..MaxDistance and
\* the largest uint16_t.
MaxDistance == 40

(***************************************************************************)
(* State                                                                   *)
(***************************************************************************)
VARIABLES
  main_pc,          \* the next call of app_main
  init_failed,      \* the configuration calls that reported a failure
  adc_task_handle,  \* TaskHandle_t adc_task_handle
  timerA_running,   \* TIMER_A started
  timerB_running,   \* TIMER_B started
  null_notify,      \* a notification was given through a NULL handle
  indice_ecg,       \* int indice_ecg
  dac_out,          \* the last value passed to AnalogOutputWrite
  obs_start,        \* the cursor when the observation began
  ecg_fires,        \* firings of TimerEcgCallback since then
  notify_value,     \* the notification value of AdcTask
  adc_pc,           \* the next statement of AdcTask
  valor_adc,        \* uint16_t valor_adc
  voltage,          \* float voltage of AdcTask
  buffer,           \* char buffer[32] of AdcTask, as a string
  adc_fires,        \* firings of TimerAdcCallback
  missed,           \* of which, since the last take, with AdcTask not waiting
  take_log,         \* per return of ulTaskNotifyTake: the firings so far
  adc_reads,        \* the values AnalogInputReadSingle stored, in order
  uart_lines,       \* the strings passed to UartSendString, in order
  calls,            \* the driver and kernel calls made, with their context
  \* distance meter
  meter,            \* which version runs: "polled", "interrupts", "serial"
  meter_pc,         \* the position of app_main in its list of calls
  sw_int,           \* the switches whose interrupt SwitchActivInt enabled
  uart_int,         \* UartInit has registered funcTeclas
  led_task_handle,  \* TaskHandle_t led_task_handle
  teclas_task_handle, \* TaskHandle_t teclas_task_handle
  timer_running,    \* TIMER_A started
  hold_lcd,         \* bool hold_lcd
  medicion_activa,  \* bool medicion_activa
  led_notify,       \* the notification value of LedTask
  led_null_notify,  \* a notification was given through a NULL handle
  led_pc,           \* the next statement of LedTask
  distancia,        \* uint16_t distancia of LedTask
  obs_activa,       \* medicion_activa as LedTask read it in this cycle
  leds,             \* the LEDs that are on
  lcd,              \* the number on the display
  serial_line,      \* the last line LedTask sent to the PC
  teclas,           \* the switches held down
  teclas_pc,        \* the state of TeclasTask
  tecla1_anterior,  \* bool tecla1_anterior of TeclasTask
  tecla2_anterior,  \* bool tecla2_anterior of TeclasTask
  func_pc,          \* the handler funcTeclas is in
  func_value,       \* the value that handler is about to store
  toggles1,         \* key 1 interrupts and 'O' commands so far
  toggles2,         \* key 2 interrupts and 'H' commands so far
  timer_fires,      \* firings of TimerCallback
  cycles,           \* cycles LedTask has completed
  lcd_writes,       \* calls of LcdItsE0803Write
  sensor_reads,     \* calls of HcSr04ReadDistanceInCentimeters
  polls,            \* polls TeclasTask has made
  key_changes,      \* presses and releases of the switches
  last_read,        \* the switches the previous SwitchesRead returned pressed
  \* multiplexed display
  bcd_pc,           \* "call" before convertToBcdArray, "return" after it
  data,             \* uint32_t data, as two 16 bit halves
  digits,           \* uint8_t digits
  bcd_number,       \* the array bcd_number points to
  bcd_result,       \* the value returned
  display_pc,       \* where DisplayNumberOnLcd is
  display_i,        \* int i of DisplayNumberOnLcd: the digit shown
  display_j,        \* int j of DisplayNumberOnLcd: the select pin written next
  bcd_i,            \* int i of BCDtoGPIO: the bit written next
  sel_on,           \* the indices in sel_gpio of the pins that are on
  bcd_on,           \* the indices in bcd_gpio of the pins that are on
  gpio_writes       \* the calls of GPIOOn and GPIOOff made, in order

bootVars == <<main_pc, init_failed, adc_task_handle, timerA_running, timerB_running>>
ecgVars == <<indice_ecg, dac_out, obs_start, ecg_fires>>
taskVars == <<adc_pc, valor_adc, voltage, buffer, take_log, adc_reads, uart_lines>>
notifyVars == <<notify_value, adc_fires, missed, null_notify>>
oscVars == <<bootVars, ecgVars, taskVars, notifyVars, calls>>

meterBoot == <<meter, meter_pc, sw_int, uart_int, led_task_handle, teclas_task_handle,
               timer_running>>
flagVars == <<hold_lcd, medicion_activa, toggles1, toggles2>>
ledNotifyVars == <<led_notify, led_null_notify, timer_fires>>
ledTaskVars == <<led_pc, distancia, obs_activa, leds, lcd, serial_line, cycles, lcd_writes,
                 sensor_reads>>
keyVars == <<teclas, teclas_pc, tecla1_anterior, tecla2_anterior, polls, key_changes,
             last_read>>
funcVars == <<func_pc, func_value>>
meterVars == <<meterBoot, flagVars, ledNotifyVars, ledTaskVars, keyVars, funcVars>>

gpioVars == <<display_pc, display_i, display_j, bcd_i, sel_on, bcd_on, gpio_writes>>
bcdVars == <<bcd_pc, data, digits, bcd_number, bcd_result, gpioVars>>

vars == <<oscVars, meterVars, bcdVars>>

\* dac_out before the first AnalogOutputWrite
NoValue == -1

Call(context, function) == <<context, function>>

(***************************************************************************)
(* Floating point: (valor_adc * 3.3) / 4095.0 is computed in double and    *)
(* stored in a float.  A significand is a sequence of bits, most           *)
(* significant first; a value is bits * 2^exp.                             *)
(***************************************************************************)
LIMB_BITS == 14

LIMB_BASE == 2 ^ LIMB_BITS

Zeros(n) == [i \in 1..n |-> 0]

\* the w bits of n
NatBits(n, w) == [i \in 1..w |-> (n \div (2 ^ (w - i))) % 2]

\* the number a sequence of at most 30 bits stands for
RECURSIVE BitsNat(_)
BitsNat(b) ==
  IF Len(b) = 0 THEN 0
  ELSE IF Len(b) = 1 THEN b[1]
  ELSE LET h == Len(b) \div 2
       IN  BitsNat(SubSeq(b, 1, h)) * (2 ^ (Len(b) - h)) + BitsNat(SubSeq(b, h + 1, Len(b)))

StripZeros(b) ==
  IF \A i \in 1..Len(b) : b[i] = 0 THEN <<>>
  ELSE LET first == CHOOSE i \in 1..Len(b) : b[i] = 1 /\ \A j \in 1..(i - 1) : b[j] = 0
       IN  SubSeq(b, first, Len(b))

\* a bit sequence as limbs of LIMB_BITS bits, most significant first
BitsLimbs(b) ==
  LET K == (Len(b) + LIMB_BITS - 1) \div LIMB_BITS
      padded == Zeros(K * LIMB_BITS - Len(b)) \o b
  IN  [j \in 1..K |-> BitsNat(SubSeq(padded, LIMB_BITS * (j - 1) + 1, LIMB_BITS * j))]

LimbsBits(l) ==
  [i \in 1..(LIMB_BITS * Len(l)) |->
     (l[((i - 1) \div LIMB_BITS) + 1] \div (2 ^ (LIMB_BITS - 1 - ((i - 1) % LIMB_BITS)))) % 2]

\* limbs * k, from the least significant limb with a carry
RECURSIVE MulLimbs(_, _, _)
MulLimbs(l, k, carry) ==
  IF l = <<>> THEN <<carry>>
  ELSE LET t == l[Len(l)] * k + carry
       IN  Append(MulLimbs(SubSeq(l, 1, Len(l) - 1), k, t \div LIMB_BASE), t % LIMB_BASE)

\* floor(limbs / k) and the remainder, by long division
RECURSIVE DivLimbs(_, _, _)
DivLimbs(l, k, rem) ==
  IF l = <<>> THEN [q |-> <<>>, r |-> rem]
  ELSE LET t == rem * LIMB_BASE + Head(l)
           rest == DivLimbs(Tail(l), k, t % k)
       IN  [q |-> <<t \div k>> \o rest.q, r |-> rest.r]

MulSmall(b, k) == StripZeros(LimbsBits(MulLimbs(BitsLimbs(b), k, 0)))

DivSmall(b, k) ==
  LET d == DivLimbs(BitsLimbs(b), k, 0)
  IN  [q |-> StripZeros(LimbsBits(d.q)), r |-> d.r]

\* bits + 1
Increment(b) ==
  IF \A i \in 1..Len(b) : b[i] = 1 THEN <<1>> \o Zeros(Len(b))
  ELSE LET last == CHOOSE i \in 1..Len(b) : b[i] = 0 /\ \A j \in (i + 1)..Len(b) : b[j] = 1
       IN  [i \in 1..Len(b) |-> IF i < last THEN b[i] ELSE IF i = last THEN 1 ELSE 0]

\* bits * 2^exp (plus a non-zero rest below it when sticky) rounded to p
\* significant bits, to nearest, ties to even
RoundNearestEven(b0, exp, sticky, p) ==
  LET b == StripZeros(b0)
      L == Len(b)
  IN  IF L <= p THEN [bits |-> b \o Zeros(p - L), exp |-> exp - (p - L)]
      ELSE LET top == SubSeq(b, 1, p)
               guard == b[p + 1]
               rest == sticky \/ \E i \in (p + 2)..L : b[i] = 1
               up == guard = 1 /\ (rest \/ top[p] = 1)
               r == IF up THEN Increment(top) ELSE top
           IN  IF Len(r) > p THEN [bits |-> SubSeq(r, 1, p), exp |-> exp + (L - p) + 1]
               ELSE [bits |-> r, exp |-> exp + (L - p)]

\* The literal 3.3 as a double: 0x1.a666666666666p+1
DOUBLE_3_3 ==
  [bits |-> <<1>> \o NatBits(10, 4) \o NatBits(6710886, 24) \o NatBits(6710886, 24), exp |-> -51]

\* (double)n * d
DoubleMulInt(n, d) == RoundNearestEven(MulSmall(d.bits, n), d.exp, FALSE, 53)

\* d / (double)k
DoubleDivInt(d, k) ==
  LET dv == DivSmall(d.bits \o Zeros(16), k)
  IN  RoundNearestEven(dv.q, d.exp - 16, dv.r # 0, 53)

\* (float)d, as m / 2^e with a 24 bit m
DoubleToFloat(d) ==
  LET f == RoundNearestEven(d.bits, d.exp, FALSE, 24)
  IN  [m |-> BitsNat(f.bits), e |-> -f.exp]

FloatZero == [m |-> 0, e |-> 0]

\* float voltage = (valor_adc * 3.3) / 4095.0;
ConvertVoltage4096(raw) ==
  IF raw = 0 THEN FloatZero
  ELSE DoubleToFloat(DoubleDivInt(DoubleMulInt(raw, DOUBLE_3_3), ADC_FULL_SCALE + 1))

ConvertVoltage(raw) ==
  IF raw = 0 THEN FloatZero
  ELSE DoubleToFloat(DoubleDivInt(DoubleMulInt(raw, DOUBLE_3_3), ADC_FULL_SCALE))

(***************************************************************************)
(* sprintf(buffer, "%.3f\r\n", voltage): the exact binary value rounded to *)
(* three decimals, ties to even.                                           *)
(***************************************************************************)
Digit(d) == <<"0", "1", "2", "3", "4", "5", "6", "7", "8", "9">>[d + 1]

\* an integer below 1000 in decimal
IntStr(n) ==
  IF n < 10 THEN Digit(n)
  ELSE IF n < 100 THEN Digit(n \div 10) \o Digit(n % 10)
  ELSE Digit(n \div 100) \o Digit((n \div 10) % 10) \o Digit(n % 10)

\* n / d to the nearest integer, ties to even
RoundDiv(n, d) ==
  LET q == n \div d
      r == n % d
  IN  q + (IF 2 * r > d \/ (2 * r = d /\ q % 2 = 1) THEN 1 ELSE 0)

\* 1000 * v to the nearest integer, for v = m / 2^e
Thousandths(v) ==
  LET whole == IF v.e > 30 THEN 0 ELSE v.m \div (2 ^ v.e)
      frac == IF v.e > 30 THEN v.m ELSE v.m % (2 ^ v.e)
      part == IF v.e <= 3 THEN RoundDiv(frac * 1000, 2 ^ v.e)
              ELSE IF v.e <= 33 THEN RoundDiv(frac * 125, 2 ^ (v.e - 3))
              ELSE IF v.e = 34 /\ frac * 125 > 2 ^ 30 THEN 1
              ELSE 0
  IN  whole * 1000 + part

FormatDefaultPrecision(v) ==
  LET t == Thousandths(v)
  IN  IntStr(t \div 1000) \o "." \o Digit((t \div 100) % 10) \o Digit((t \div 10) % 10)
        \o Digit(t % 10) \o "000" \o "\r\n"

Format(v) ==
  LET t == Thousandths(v)
  IN  IntStr(t \div 1000) \o "." \o Digit((t \div 100) % 10) \o Digit((t \div 10) % 10)
        \o Digit(t % 10) \o "\r\n"

(***************************************************************************)
(* app_main                                                                *)
(***************************************************************************)
\* A configuration call of a driver.  Its outcome is the driver's; app_main
\* does not look at it and goes on to the next call.
DriverInit(call, next, failures) ==
  /\ main_pc = call
  /\ \E failed \in failures :
       init_failed' = IF failed THEN init_failed \cup {call} ELSE init_failed
  /\ main_pc' = next
  /\ UNCHANGED <<adc_task_handle, timerA_running, timerB_running>>
  /\ UNCHANGED <<ecgVars, taskVars, notifyVars, calls>>
  /\ UNCHANGED <<meterVars, bcdVars>>

CreateAdcTask_HandleNotStored ==
  /\ main_pc = "xTaskCreate"
  /\ adc_task_handle' = adc_task_handle
  /\ adc_pc' = "ulTaskNotifyTake"
  /\ main_pc' = "TimerStartA"
  /\ UNCHANGED <<init_failed, timerA_running, timerB_running>>
  /\ UNCHANGED <<valor_adc, voltage, buffer, take_log, adc_reads, uart_lines>>
  /\ UNCHANGED <<ecgVars, notifyVars, calls>>
  /\ UNCHANGED <<meterVars, bcdVars>>

\* xTaskCreate(AdcTask, ..., &adc_task_handle): AdcTask enters its loop.
CreateAdcTask ==
  /\ main_pc = "xTaskCreate"
  /\ adc_task_handle' = "AdcTask"
  /\ adc_pc' = "ulTaskNotifyTake"
  /\ main_pc' = "TimerStartA"
  /\ UNCHANGED <<init_failed, timerA_running, timerB_running>>
  /\ UNCHANGED <<valor_adc, voltage, buffer, take_log, adc_reads, uart_lines>>
  /\ UNCHANGED <<ecgVars, notifyVars, calls>>
  /\ UNCHANGED <<meterVars, bcdVars>>

\* What TimerStart does to a timer: one that was not configured may or may
\* not run.
Started(init_call) == IF init_call \in init_failed THEN BOOLEAN ELSE {TRUE}

StartTimerA ==
  /\ main_pc = "TimerStartA"
  /\ timerA_running' \in Started("TimerInitA")
  /\ main_pc' = "TimerStartB"
  /\ UNCHANGED <<init_failed, adc_task_handle, timerB_running>>
  /\ UNCHANGED <<ecgVars, taskVars, notifyVars, calls>>
  /\ UNCHANGED <<meterVars, bcdVars>>

StartTimerB ==
  /\ main_pc = "TimerStartB"
  /\ timerB_running' \in Started("TimerInitB")
  /\ main_pc' = "done"
  /\ UNCHANGED <<init_failed, adc_task_handle, timerA_running>>
  /\ UNCHANGED <<ecgVars, taskVars, notifyVars, calls>>
  /\ UNCHANGED <<meterVars, bcdVars>>

app_main(failures) ==
  \/ DriverInit("AnalogInputInit", "AnalogOutputInit", failures)
  \/ DriverInit("AnalogOutputInit", "UartInit", failures)
  \/ DriverInit("UartInit", "TimerInitA", failures)
  \/ DriverInit("TimerInitA", "TimerInitB", failures)
  \/ DriverInit("TimerInitB", "xTaskCreate", failures)
  \/ CreateAdcTask
  \/ StartTimerA
  \/ StartTimerB

(***************************************************************************)
(* Playback: TimerEcgCallback, in interrupt context                        *)
(***************************************************************************)
\* ecg[i]; a read outside the array yields whatever byte lies there.
EcgRead(i) == IF i \in 0..(BUFFER_SIZE - 1) THEN {ecg[i + 1]} ELSE 0..255

AdvanceNoWrap(i) == i + 1

AdvanceWrapAfterLast(i) == IF i + 1 > BUFFER_SIZE THEN 0 ELSE i + 1

\* (indice_ecg + 1) % BUFFER_SIZE
Advance(i) == (i + 1) % BUFFER_SIZE

GenerarSenalECG_AdvanceFirst ==
  /\ indice_ecg' = Advance(indice_ecg)
  /\ \E valor_dac \in EcgRead(indice_ecg') : dac_out' = valor_dac
  /\ calls' = calls \cup {Call("isr", "AnalogOutputWrite")}

GenerarSenalECG ==
  /\ \E valor_dac \in EcgRead(indice_ecg) : dac_out' = valor_dac
  /\ calls' = calls \cup {Call("isr", "AnalogOutputWrite")}
  /\ indice_ecg' = Advance(indice_ecg)

TimerEcgCallback_WaitsForTask ==
  /\ timerB_running
  /\ adc_pc = "ulTaskNotifyTake"
  /\ GenerarSenalECG
  /\ ecg_fires' = ecg_fires + 1
  /\ UNCHANGED <<obs_start, bootVars, taskVars, notifyVars>>
  /\ UNCHANGED <<meterVars, bcdVars>>

TimerEcgCallback ==
  /\ timerB_running
  /\ GenerarSenalECG
  /\ ecg_fires' = ecg_fires + 1
  /\ UNCHANGED <<obs_start, bootVars, taskVars, notifyVars>>
  /\ UNCHANGED <<meterVars, bcdVars>>

(***************************************************************************)
(* Acquisition: TimerAdcCallback in interrupt context, AdcTask as a task   *)
(***************************************************************************)
\* vTaskNotifyGiveFromISR(adc_task_handle, NULL): the notification value of
\* the task goes up by one.
Give ==
  IF adc_task_handle = "NULL"
  THEN null_notify' = TRUE /\ notify_value' = notify_value
  ELSE null_notify' = null_notify /\ notify_value' = notify_value + 1

TimerAdcCallback_ReadsInIsr ==
  /\ timerA_running
  /\ Give
  /\ adc_fires' = adc_fires + 1
  /\ missed' = IF adc_pc = "ulTaskNotifyTake" THEN missed ELSE missed + 1
  /\ valor_adc' \in {0, ADC_FULL_SCALE}
  /\ calls' = calls \cup {Call("isr", "vTaskNotifyGiveFromISR"),
                          Call("isr", "AnalogInputReadSingle")}
  /\ UNCHANGED <<adc_pc, voltage, buffer, take_log, adc_reads, uart_lines>>
  /\ UNCHANGED <<bootVars, ecgVars>>
  /\ UNCHANGED <<meterVars, bcdVars>>

TimerAdcCallback_PlaysEcg ==
  /\ timerA_running
  /\ Give
  /\ adc_fires' = adc_fires + 1
  /\ missed' = IF adc_pc = "ulTaskNotifyTake" THEN missed ELSE missed + 1
  /\ calls' = calls \cup {Call("isr", "vTaskNotifyGiveFromISR")}
  /\ \E valor_dac \in EcgRead(indice_ecg) : dac_out' = valor_dac
  /\ indice_ecg' = Advance(indice_ecg)
  /\ UNCHANGED <<obs_start, ecg_fires, bootVars, taskVars>>
  /\ UNCHANGED <<meterVars, bcdVars>>

TimerAdcCallback ==
  /\ timerA_running
  /\ Give
  /\ adc_fires' = adc_fires + 1
  /\ missed' = IF adc_pc = "ulTaskNotifyTake" THEN missed ELSE missed + 1
  /\ calls' = calls \cup {Call("isr", "vTaskNotifyGiveFromISR")}
  /\ UNCHANGED <<bootVars, ecgVars, taskVars>>
  /\ UNCHANGED <<meterVars, bcdVars>>

DecrementOnExit(value) == value - 1

\* ulTaskNotifyTake(pdTRUE, ...): the value left behind on exit.
ClearOnExit(value) == 0

PollWithoutWaiting == TRUE

\* ulTaskNotifyTake(..., portMAX_DELAY) returns only once the value is not 0.
Notified == notify_value > 0

AdcTaskTake ==
  /\ adc_pc = "ulTaskNotifyTake"
  /\ Notified
  /\ notify_value' = ClearOnExit(notify_value)
  /\ take_log' = Append(take_log, [fires |-> adc_fires, missed |-> missed])
  /\ missed' = 0
  /\ adc_pc' = "AnalogInputReadSingle"
  /\ calls' = calls \cup {Call("task", "ulTaskNotifyTake")}
  /\ UNCHANGED <<valor_adc, voltage, buffer, adc_reads, uart_lines>>
  /\ UNCHANGED <<adc_fires, null_notify, bootVars, ecgVars>>
  /\ UNCHANGED <<meterVars, bcdVars>>

\* AnalogInputReadSingle(ADC_CHANNEL, &valor_adc)
AdcTaskRead(codes) ==
  /\ adc_pc = "AnalogInputReadSingle"
  /\ \E raw \in codes :
       /\ valor_adc' = raw
       /\ adc_reads' = Append(adc_reads, raw)
  /\ adc_pc' = "voltage"
  /\ calls' = calls \cup {Call("task", "AnalogInputReadSingle")}
  /\ UNCHANGED <<voltage, buffer, take_log, uart_lines>>
  /\ UNCHANGED <<bootVars, ecgVars, notifyVars>>
  /\ UNCHANGED <<meterVars, bcdVars>>

AdcTaskConvert ==
  /\ adc_pc = "voltage"
  /\ voltage' = ConvertVoltage(valor_adc)
  /\ adc_pc' = "sprintf"
  /\ UNCHANGED <<valor_adc, buffer, take_log, adc_reads, uart_lines>>
  /\ UNCHANGED <<bootVars, ecgVars, notifyVars, calls>>
  /\ UNCHANGED <<meterVars, bcdVars>>

AdcTaskSprintf ==
  /\ adc_pc = "sprintf"
  /\ buffer' = Format(voltage)
  /\ adc_pc' = "UartSendString"
  /\ calls' = calls \cup {Call("task", "sprintf")}
  /\ UNCHANGED <<valor_adc, voltage, take_log, adc_reads, uart_lines>>
  /\ UNCHANGED <<bootVars, ecgVars, notifyVars>>
  /\ UNCHANGED <<meterVars, bcdVars>>

AdcTaskSend_LeavesLoop ==
  /\ adc_pc = "UartSendString"
  /\ uart_lines' = Append(uart_lines, buffer)
  /\ adc_pc' = "returned"
  /\ calls' = calls \cup {Call("task", "UartSendString")}
  /\ UNCHANGED <<valor_adc, voltage, buffer, take_log, adc_reads>>
  /\ UNCHANGED <<bootVars, ecgVars, notifyVars>>
  /\ UNCHANGED <<meterVars, bcdVars>>

AdcTaskSend ==
  /\ adc_pc = "UartSendString"
  /\ uart_lines' = Append(uart_lines, buffer)
  /\ adc_pc' = "ulTaskNotifyTake"
  /\ calls' = calls \cup {Call("task", "UartSendString")}
  /\ UNCHANGED <<valor_adc, voltage, buffer, take_log, adc_reads>>
  /\ UNCHANGED <<bootVars, ecgVars, notifyVars>>
  /\ UNCHANGED <<meterVars, bcdVars>>

AdcTask(codes) ==
  \/ AdcTaskTake
  \/ AdcTaskRead(codes)
  \/ AdcTaskConvert
  \/ AdcTaskSprintf
  \/ AdcTaskSend

(***************************************************************************)
(* Distance meter: app_main                                                *)
(***************************************************************************)
\* The largest value of uint16_t distancia
UINT16_MAX == 65535

LEDS == {"LED_1", "LED_2", "LED_3"}

SWITCHES == {"SWITCH_1", "SWITCH_2"}

\* The calls app_main makes, in order, in each version of the program.
MeterCalls ==
  [polled |->
     << "SwitchesInit", "LedsInit", "HcSr04Init", "LcdItsE0803Init",
        "xTaskCreate LedTask", "xTaskCreate TeclasTask" >>,
   interrupts |->
     << "SwitchesInit", "LedsInit", "HcSr04Init", "LcdItsE0803Init",
        "SwitchActivInt SWITCH_1", "SwitchActivInt SWITCH_2",
        "xTaskCreate LedTask", "TimerInit", "TimerStart" >>,
   serial |->
     << "SwitchesInit", "LedsInit", "HcSr04Init", "LcdItsE0803Init", "UartInit",
        "SwitchActivInt SWITCH_1", "SwitchActivInt SWITCH_2",
        "xTaskCreate LedTask", "TimerInit", "TimerStart" >>]

\* The first statement of the loop of LedTask
LedLoopStart == IF meter = "polled" THEN "medicion_activa" ELSE "ulTaskNotifyTake"

\* One call of app_main.
MeterMain ==
  /\ meter \in DOMAIN MeterCalls
  /\ meter_pc <= Len(MeterCalls[meter])
  /\ LET call == MeterCalls[meter][meter_pc]
     IN  /\ sw_int' = IF call = "SwitchActivInt SWITCH_1" THEN sw_int \cup {"SWITCH_1"}
                      ELSE IF call = "SwitchActivInt SWITCH_2" THEN sw_int \cup {"SWITCH_2"}
                      ELSE sw_int
         /\ uart_int' = (uart_int \/ call = "UartInit")
         /\ led_task_handle' = IF call = "xTaskCreate LedTask" THEN "LedTask"
                               ELSE led_task_handle
         /\ led_pc' = IF call = "xTaskCreate LedTask" THEN LedLoopStart ELSE led_pc
         /\ teclas_task_handle' = IF call = "xTaskCreate TeclasTask" THEN "TeclasTask"
                                  ELSE teclas_task_handle
         /\ teclas_pc' = IF call = "xTaskCreate TeclasTask" THEN "SwitchesRead" ELSE teclas_pc
         /\ timer_running' = (timer_running \/ call = "TimerStart")
  /\ meter_pc' = meter_pc + 1
  /\ UNCHANGED <<meter, flagVars, ledNotifyVars, funcVars>>
  /\ UNCHANGED <<distancia, obs_activa, leds, lcd, serial_line, cycles, lcd_writes,
                 sensor_reads>>
  /\ UNCHANGED <<teclas, tecla1_anterior, tecla2_anterior, polls, key_changes, last_read>>
  /\ UNCHANGED <<oscVars, bcdVars>>

(***************************************************************************)
(* Distance meter: the timer, the keys and the serial port                 *)
(***************************************************************************)
\* TimerCallback: vTaskNotifyGiveFromISR(led_task_handle, NULL)
TimerCallback ==
  /\ timer_running
  /\ IF led_task_handle = "NULL"
     THEN led_null_notify' = TRUE /\ led_notify' = led_notify
     ELSE led_null_notify' = led_null_notify /\ led_notify' = led_notify + 1
  /\ timer_fires' = timer_fires + 1
  /\ UNCHANGED <<meterBoot, flagVars, ledTaskVars, keyVars, funcVars>>
  /\ UNCHANGED <<oscVars, bcdVars>>

\* The interrupt of key 1: AtiendoTecla1 runs as one step.
AtiendoTecla1 ==
  /\ "SWITCH_1" \in sw_int
  /\ medicion_activa' = ~medicion_activa
  /\ toggles1' = toggles1 + 1
  /\ UNCHANGED <<hold_lcd, toggles2>>
  /\ UNCHANGED <<meterBoot, ledNotifyVars, ledTaskVars, keyVars, funcVars>>
  /\ UNCHANGED <<oscVars, bcdVars>>

\* The interrupt of key 2: AtiendoTecla2 runs as one step.
AtiendoTecla2 ==
  /\ "SWITCH_2" \in sw_int
  /\ hold_lcd' = ~hold_lcd
  /\ toggles2' = toggles2 + 1
  /\ UNCHANGED <<medicion_activa, toggles1>>
  /\ UNCHANGED <<meterBoot, ledNotifyVars, ledTaskVars, keyVars, funcVars>>
  /\ UNCHANGED <<oscVars, bcdVars>>

\* The bytes the PC may send
Bytes == {"O", "o", "H", "h", "x"}

\* funcTeclas, called by the UART driver when a byte has arrived, with the
\* interrupts of the keys enabled: it reads the byte and, in AtiendoTecla1
\* or AtiendoTecla2, reads the flag it is about to negate.
FuncTeclasRead ==
  /\ uart_int
  /\ func_pc = "idle"
  /\ \E tecla \in Bytes :
       CASE tecla \in {"O", "o"} ->
              /\ func_pc' = "AtiendoTecla1"
              /\ func_value' = ~medicion_activa
              /\ toggles1' = toggles1 + 1
              /\ toggles2' = toggles2
         [] tecla \in {"H", "h"} ->
              /\ func_pc' = "AtiendoTecla2"
              /\ func_value' = ~hold_lcd
              /\ toggles2' = toggles2 + 1
              /\ toggles1' = toggles1
         [] OTHER ->
              UNCHANGED <<func_pc, func_value, toggles1, toggles2>>
  /\ UNCHANGED <<hold_lcd, medicion_activa>>
  /\ UNCHANGED <<meterBoot, ledNotifyVars, ledTaskVars, keyVars>>
  /\ UNCHANGED <<oscVars, bcdVars>>

\* ... and stores the negated value.
FuncTeclasStore ==
  /\ func_pc \in {"AtiendoTecla1", "AtiendoTecla2"}
  /\ medicion_activa' = IF func_pc = "AtiendoTecla1" THEN func_value ELSE medicion_activa
  /\ hold_lcd' = IF func_pc = "AtiendoTecla2" THEN func_value ELSE hold_lcd
  /\ func_pc' = "idle"
  /\ func_value' = FALSE
  /\ UNCHANGED <<toggles1, toggles2>>
  /\ UNCHANGED <<meterBoot, ledNotifyVars, ledTaskVars, keyVars>>
  /\ UNCHANGED <<oscVars, bcdVars>>

\* A key is pressed or released.
SwitchChange ==
  /\ \E k \in SWITCHES :
       teclas' = IF k \in teclas THEN teclas \ {k} ELSE teclas \cup {k}
  /\ key_changes' = key_changes + 1
  /\ UNCHANGED <<teclas_pc, tecla1_anterior, tecla2_anterior, polls, last_read>>
  /\ UNCHANGED <<meterBoot, flagVars, ledNotifyVars, ledTaskVars, funcVars>>
  /\ UNCHANGED <<oscVars, bcdVars>>

TeclasTask_LevelTriggered ==
  /\ teclas_pc = "SwitchesRead"
  /\ LET sw1 == "SWITCH_1" \in teclas
         sw2 == "SWITCH_2" \in teclas
         flip1 == sw1
         flip2 == sw2
     IN  /\ medicion_activa' = IF flip1 THEN ~medicion_activa ELSE medicion_activa
         /\ toggles1' = IF flip1 THEN toggles1 + 1 ELSE toggles1
         /\ tecla1_anterior' = sw1
         /\ hold_lcd' = IF flip2 THEN ~hold_lcd ELSE hold_lcd
         /\ toggles2' = IF flip2 THEN toggles2 + 1 ELSE toggles2
         /\ tecla2_anterior' = sw2
  /\ polls' = polls + 1
  /\ last_read' = teclas
  /\ UNCHANGED <<teclas, teclas_pc, key_changes>>
  /\ UNCHANGED <<meterBoot, ledNotifyVars, ledTaskVars, funcVars>>
  /\ UNCHANGED <<oscVars, bcdVars>>

\* One turn of the loop of TeclasTask, from SwitchesRead to vTaskDelay.  It
\* has the higher priority, so LedTask does not run inside it.
TeclasTask ==
  /\ teclas_pc = "SwitchesRead"
  /\ LET sw1 == "SWITCH_1" \in teclas
         sw2 == "SWITCH_2" \in teclas
         flip1 == sw1 /\ ~tecla1_anterior
         flip2 == sw2 /\ ~tecla2_anterior
     IN  /\ medicion_activa' = IF flip1 THEN ~medicion_activa ELSE medicion_activa
         /\ toggles1' = IF flip1 THEN toggles1 + 1 ELSE toggles1
         /\ tecla1_anterior' = sw1
         /\ hold_lcd' = IF flip2 THEN ~hold_lcd ELSE hold_lcd
         /\ toggles2' = IF flip2 THEN toggles2 + 1 ELSE toggles2
         /\ tecla2_anterior' = sw2
  /\ polls' = polls + 1
  /\ last_read' = teclas
  /\ UNCHANGED <<teclas, teclas_pc, key_changes>>
  /\ UNCHANGED <<meterBoot, ledNotifyVars, ledTaskVars, funcVars>>
  /\ UNCHANGED <<oscVars, bcdVars>>

(***************************************************************************)
(* Distance meter: LedTask                                                 *)
(***************************************************************************)
LedOff(led, on) == on \ {led}

LedOn(led, on) == on \cup {led}

ActualizarLeds_NoLedOff(d, on) ==
  IF d < 10 THEN on
  ELSE IF d < 20 THEN LedOn("LED_1", on)
  ELSE IF d < 30 THEN LedOn("LED_2", LedOn("LED_1", on))
  ELSE LedOn("LED_3", LedOn("LED_2", LedOn("LED_1", on)))

ActualizarLeds(d, on) ==
  LET off == LedOff("LED_3", LedOff("LED_2", LedOff("LED_1", on)))
  IN  IF d < 10 THEN off
      ELSE IF d < 20 THEN LedOn("LED_1", off)
      ELSE IF d < 30 THEN LedOn("LED_2", LedOn("LED_1", off))
      ELSE LedOn("LED_3", LedOn("LED_2", LedOn("LED_1", off)))

\* UartItoa(n, 10) for a 16 bit n: its decimal digits, no leading zeros
UartItoa(n) ==
  LET ds == << n \div 10000, (n \div 1000) % 10, (n \div 100) % 10, (n \div 10) % 10, n % 10 >>
      first == CHOOSE i \in 1..5 : (i = 5 \/ ds[i] # 0) /\ \A j \in 1..(i - 1) : ds[j] = 0
      Part(i) == IF i < first THEN "" ELSE Digit(ds[i])
  IN  Part(1) \o Part(2) \o Part(3) \o Part(4) \o Part(5)

\* ulTaskNotifyTake(pdTRUE, portMAX_DELAY)
LedTaskTake ==
  /\ led_pc = "ulTaskNotifyTake"
  /\ led_notify > 0
  /\ led_notify' = 0
  /\ led_pc' = "medicion_activa"
  /\ UNCHANGED <<led_null_notify, timer_fires>>
  /\ UNCHANGED <<distancia, obs_activa, leds, lcd, serial_line, cycles, lcd_writes,
                 sensor_reads>>
  /\ UNCHANGED <<meterBoot, flagVars, keyVars, funcVars>>
  /\ UNCHANGED <<oscVars, bcdVars>>

LedTaskMeasure_KeepsDistance(distances) ==
  /\ led_pc = "medicion_activa"
  /\ obs_activa' = medicion_activa
  /\ IF medicion_activa
     THEN /\ distancia' \in distances
          /\ sensor_reads' = sensor_reads + 1
     ELSE /\ distancia' = distancia
          /\ sensor_reads' = sensor_reads
  /\ led_pc' = IF meter = "serial" THEN "UartSendString" ELSE "ActualizarLeds"
  /\ UNCHANGED <<leds, lcd, serial_line, cycles, lcd_writes>>
  /\ UNCHANGED <<meterBoot, flagVars, ledNotifyVars, keyVars, funcVars>>
  /\ UNCHANGED <<oscVars, bcdVars>>

\* uint16_t distancia = 0; if (medicion_activa) distancia = HcSr04Read...()
LedTaskMeasure(distances) ==
  /\ led_pc = "medicion_activa"
  /\ obs_activa' = medicion_activa
  /\ IF medicion_activa
     THEN /\ distancia' \in distances
          /\ sensor_reads' = sensor_reads + 1
     ELSE /\ distancia' = 0
          /\ sensor_reads' = sensor_reads
  /\ led_pc' = IF meter = "serial" THEN "UartSendString" ELSE "ActualizarLeds"
  /\ UNCHANGED <<leds, lcd, serial_line, cycles, lcd_writes>>
  /\ UNCHANGED <<meterBoot, flagVars, ledNotifyVars, keyVars, funcVars>>
  /\ UNCHANGED <<oscVars, bcdVars>>

\* UartSendString(UART_PC, UartItoa(distancia, 10)); UartSendString(UART_PC, " cm\r\n")
LedTaskSend ==
  /\ led_pc = "UartSendString"
  /\ serial_line' = UartItoa(distancia) \o " cm\r\n"
  /\ led_pc' = "ActualizarLeds"
  /\ UNCHANGED <<distancia, obs_activa, leds, lcd, cycles, lcd_writes, sensor_reads>>
  /\ UNCHANGED <<meterBoot, flagVars, ledNotifyVars, keyVars, funcVars>>
  /\ UNCHANGED <<oscVars, bcdVars>>

\* ActualizarLeds(distancia)
LedTaskLeds ==
  /\ led_pc = "ActualizarLeds"
  /\ leds' = ActualizarLeds(distancia, leds)
  /\ led_pc' = "hold_lcd"
  /\ UNCHANGED <<distancia, obs_activa, lcd, serial_line, cycles, lcd_writes, sensor_reads>>
  /\ UNCHANGED <<meterBoot, flagVars, ledNotifyVars, keyVars, funcVars>>
  /\ UNCHANGED <<oscVars, bcdVars>>

LedTaskDisplay_IgnoresHold ==
  /\ led_pc = "hold_lcd"
  /\ lcd' = distancia
  /\ lcd_writes' = lcd_writes + 1
  /\ cycles' = cycles + 1
  /\ led_pc' = IF meter = "polled" THEN "vTaskDelay" ELSE "ulTaskNotifyTake"
  /\ UNCHANGED <<distancia, obs_activa, leds, serial_line, sensor_reads>>
  /\ UNCHANGED <<meterBoot, flagVars, ledNotifyVars, keyVars, funcVars>>
  /\ UNCHANGED <<oscVars, bcdVars>>

\* if (!hold_lcd) LcdItsE0803Write(distancia); the end of the loop body
LedTaskDisplay ==
  /\ led_pc = "hold_lcd"
  /\ IF ~hold_lcd
     THEN lcd' = distancia /\ lcd_writes' = lcd_writes + 1
     ELSE lcd' = lcd /\ lcd_writes' = lcd_writes
  /\ cycles' = cycles + 1
  /\ led_pc' = IF meter = "polled" THEN "vTaskDelay" ELSE "ulTaskNotifyTake"
  /\ UNCHANGED <<distancia, obs_activa, leds, serial_line, sensor_reads>>
  /\ UNCHANGED <<meterBoot, flagVars, ledNotifyVars, keyVars, funcVars>>
  /\ UNCHANGED <<oscVars, bcdVars>>

\* vTaskDelay(CONFIG_BLINK_PERIOD_LED / portTICK_PERIOD_MS)
LedTaskDelay ==
  /\ led_pc = "vTaskDelay"
  /\ led_pc' = "medicion_activa"
  /\ UNCHANGED <<distancia, obs_activa, leds, lcd, serial_line, cycles, lcd_writes,
                 sensor_reads>>
  /\ UNCHANGED <<meterBoot, flagVars, ledNotifyVars, keyVars, funcVars>>
  /\ UNCHANGED <<oscVars, bcdVars>>

(***************************************************************************)
(* Multiplexed display: convertToBcdArray.  A uint32_t is kept as its two  *)
(* 16 bit halves [hi, lo]; an int is a number of 32 bits, two's complement.*)
(***************************************************************************)
HALF == 65536

INT_MAX == 2147483647

\* The uint32_t of a number below 2^31
U32(n) == [hi |-> n \div HALF, lo |-> n % HALF]

\* The conversion of an int to unsigned int
ToU32(v) == [hi |-> (v \div HALF) % HALF, lo |-> v % HALF]

\* a >= b, a < b on unsigned int
GeU32(a, b) == a.hi > b.hi \/ (a.hi = b.hi /\ a.lo >= b.lo)

LtU32(a, b) == ~GeU32(a, b)

\* a % 10 and a / 10 on unsigned int
Mod10(a) == ((a.hi % 10) * HALF + a.lo) % 10

Div10(a) == [hi |-> a.hi \div 10, lo |-> ((a.hi % 10) * HALF + a.lo) \div 10]

\* The 32 bits of v * 10, read as an int
WrapMulTen(v) ==
  LET low == (v % HALF) * 10
      high == ((v \div HALF) * 10 + (low \div HALF)) % HALF
  IN  (IF high >= HALF \div 2 THEN high - HALF ELSE high) * HALF + (low % HALF)

\* max_value *= 10 on int max_value.  When the product does not fit an int
\* the behaviour is undefined: the build either keeps the low 32 bits or
\* traps.
MulTen(v) ==
  IF v <= INT_MAX \div 10 /\ v >= -(INT_MAX \div 10)
  THEN {[trapped |-> FALSE, value |-> v * 10]}
  ELSE {[trapped |-> FALSE, value |-> WrapMulTen(v)], [trapped |-> TRUE, value |-> 0]}

RECURSIVE MaxValueLoop(_, _)
\* for (int i = 0; i < digits; i++) max_value *= 10, with n iterations to go
MaxValueLoop(max_value, n) ==
  IF n = 0 \/ max_value.trapped THEN {max_value}
  ELSE UNION {MaxValueLoop(next, n - 1) : next \in MulTen(max_value.value)}

RECURSIVE BcdLoop_FirstDigitFirst(_, _, _, _)
BcdLoop_FirstDigitFirst(number, n, i, bcd) ==
  IF i >= n THEN bcd
  ELSE BcdLoop_FirstDigitFirst(Div10(number), n, i + 1, [bcd EXCEPT ![i + 1] = Mod10(number)])

RECURSIVE BcdLoop(_, _, _, _)
\* for (int i = 0; i < digits; i++) { bcd_number[digits - 1 - i] = data % 10;
\* data /= 10; } from iteration i on; C index k is bcd[k + 1] here.
BcdLoop(number, n, i, bcd) ==
  IF i >= n THEN bcd
  ELSE BcdLoop(Div10(number), n, i + 1, [bcd EXCEPT ![(n - 1 - i) + 1] = Mod10(number)])

convertToBcdArray ==
  /\ bcd_pc = "call"
  /\ \E max_value \in MaxValueLoop([trapped |-> FALSE, value |-> 1], digits) :
       IF max_value.trapped
       THEN /\ bcd_pc' = "trap"
            /\ UNCHANGED <<bcd_number, bcd_result>>
       ELSE IF GeU32(data, ToU32(max_value.value))
       THEN /\ bcd_result' = -1
            /\ bcd_number' = bcd_number
            /\ bcd_pc' = "return"
       ELSE /\ bcd_number' = BcdLoop(data, digits, 0, bcd_number)
            /\ bcd_result' = 0
            /\ bcd_pc' = "return"
  /\ UNCHANGED <<data, digits, gpioVars>>
  /\ UNCHANGED <<oscVars, meterVars>>

(***************************************************************************)
(* Multiplexed display: DisplayNumberOnLcd and BCDtoGPIO.  Pin k of a      *)
(* vector is named by its index k; each GPIOOn or GPIOOff is one step.     *)
(***************************************************************************)
N_BITS == 4

\* GPIOOn(pin) / GPIOOff(pin) on a set of pins that are on
GPIOOn(pin, on) == on \cup {pin}

GPIOOff(pin, on) == on \ {pin}

\* if (convertToBcdArray(data, digits, bcd_array) != 0) return; and the entry
\* of for (int i = 0; i < digits; i++)
DisplayConverted ==
  /\ display_pc = "convertToBcdArray"
  /\ bcd_pc = "return"
  /\ display_pc' = IF bcd_result # 0 \/ digits = 0 THEN "return" ELSE "select"
  /\ display_i' = 0
  /\ display_j' = 0
  /\ UNCHANGED <<bcd_i, sel_on, bcd_on, gpio_writes>>
  /\ UNCHANGED <<bcd_pc, data, digits, bcd_number, bcd_result>>
  /\ UNCHANGED <<oscVars, meterVars>>

\* One turn of for (int j = 0; j < digits; j++): GPIOOn(sel_gpio[j].pin) if
\* j == i, GPIOOff(sel_gpio[j].pin) otherwise
DisplaySelect ==
  /\ display_pc = "select"
  /\ IF display_j = display_i
     THEN /\ sel_on' = GPIOOn(display_j, sel_on)
          /\ gpio_writes' = Append(gpio_writes, [vector |-> "sel_gpio", pin |-> display_j, on |-> TRUE])
     ELSE /\ sel_on' = GPIOOff(display_j, sel_on)
          /\ gpio_writes' = Append(gpio_writes, [vector |-> "sel_gpio", pin |-> display_j, on |-> FALSE])
  /\ IF display_j + 1 < digits
     THEN display_j' = display_j + 1 /\ display_pc' = display_pc
     ELSE display_j' = 0 /\ display_pc' = "BCDtoGPIO"
  /\ bcd_i' = 0
  /\ UNCHANGED <<display_i, bcd_on>>
  /\ UNCHANGED <<bcd_pc, data, digits, bcd_number, bcd_result>>
  /\ UNCHANGED <<oscVars, meterVars>>

\* int bit = (digit & (1 << i)) ? 1 : 0
Bit(digit, i) == (digit \div (2 ^ i)) % 2

\* One turn of the loop of BCDtoGPIO(bcd_array[i], bcd_gpio); after the last
\* one, the next turn of the loop of DisplayNumberOnLcd or its return.
BCDtoGPIO ==
  /\ display_pc = "BCDtoGPIO"
  /\ LET digit == bcd_number[display_i + 1]
     IN  IF Bit(digit, bcd_i) = 0
         THEN /\ bcd_on' = GPIOOff(bcd_i, bcd_on)
              /\ gpio_writes' = Append(gpio_writes, [vector |-> "bcd_gpio", pin |-> bcd_i, on |-> FALSE])
         ELSE /\ bcd_on' = GPIOOn(bcd_i, bcd_on)
              /\ gpio_writes' = Append(gpio_writes, [vector |-> "bcd_gpio", pin |-> bcd_i, on |-> TRUE])
  /\ IF bcd_i + 1 < N_BITS
     THEN /\ bcd_i' = bcd_i + 1
          /\ UNCHANGED <<display_pc, display_i>>
     ELSE /\ bcd_i' = 0
          /\ display_i' = display_i + 1
          /\ display_pc' = IF display_i + 1 < digits THEN "select" ELSE "return"
  /\ UNCHANGED <<display_j, sel_on>>
  /\ UNCHANGED <<bcd_pc, data, digits, bcd_number, bcd_result>>
  /\ UNCHANGED <<oscVars, meterVars>>

DisplayNumberOnLcd ==
  \/ convertToBcdArray
  \/ DisplayConverted
  \/ DisplaySelect
  \/ BCDtoGPIO

(***************************************************************************)
(* Specifications                                                          *)
(***************************************************************************)
\* The raw codes of the converter (12 bits: 0-4095)
AdcCodes == 0..ADC_FULL_SCALE

\* The codes explored where whole runs are followed
AdcSamples == {0, ADC_FULL_SCALE}

\* The distances the sensor reports where whole runs are followed
DistanceSamples == {5, 15, 30}

\* The globals of a distance meter as initialised, app_main about to run.
MeterInit(version) ==
  /\ meter = version
  /\ meter_pc = 1
  /\ sw_int = {}
  /\ uart_int = FALSE
  /\ led_task_handle = "NULL"
  /\ teclas_task_handle = "NULL"
  /\ timer_running = FALSE
  /\ hold_lcd = FALSE
  /\ medicion_activa = TRUE
  /\ led_notify = 0
  /\ led_null_notify = FALSE
  /\ led_pc = "not created"
  /\ distancia = 0
  /\ obs_activa = TRUE
  /\ leds = {}
  /\ lcd = NoValue
  /\ serial_line = ""
  /\ teclas = {}
  /\ teclas_pc = "not created"
  /\ tecla1_anterior = FALSE
  /\ tecla2_anterior = FALSE
  /\ func_pc = "idle"
  /\ func_value = FALSE
  /\ toggles1 = 0
  /\ toggles2 = 0
  /\ timer_fires = 0
  /\ cycles = 0
  /\ lcd_writes = 0
  /\ sensor_reads = 0
  /\ polls = 0
  /\ key_changes = 0
  /\ last_read = {}

\* DisplayNumberOnLcd not called, every pin off
DisplayOff ==
  /\ display_pc = "off"
  /\ display_i = 0
  /\ display_j = 0
  /\ bcd_i = 0
  /\ sel_on = {}
  /\ bcd_on = {}
  /\ gpio_writes = <<>>

\* convertToBcdArray not called
BcdOff ==
  /\ bcd_pc = "off"
  /\ data = [hi |-> 0, lo |-> 0]
  /\ digits = 0
  /\ bcd_number = <<>>
  /\ bcd_result = 0
  /\ DisplayOff

\* The globals as initialised, app_main about to run.
Init ==
  /\ MeterInit("off")
  /\ BcdOff
  /\ main_pc = "AnalogInputInit"
  /\ init_failed = {}
  /\ adc_task_handle = "NULL"
  /\ timerA_running = FALSE
  /\ timerB_running = FALSE
  /\ null_notify = FALSE
  /\ indice_ecg = 0
  /\ dac_out = NoValue
  /\ obs_start = 0
  /\ ecg_fires = 0
  /\ notify_value = 0
  /\ adc_pc = "not created"
  /\ valor_adc = 0
  /\ voltage = FloatZero
  /\ buffer = ""
  /\ adc_fires = 0
  /\ missed = 0
  /\ take_log = <<>>
  /\ adc_reads = <<>>
  /\ uart_lines = <<>>
  /\ calls = {}

\* The whole program, every driver configuring as asked.
Next ==
  \/ app_main({FALSE})
  \/ (ecg_fires < MaxEcgFires /\ TimerEcgCallback)
  \/ (adc_fires < MaxAdcFires /\ TimerAdcCallback)
  \/ AdcTask(AdcSamples)

Spec == Init /\ [][Next]_vars

\* app_main has returned with every driver configured, both timers run,
\* AdcTask waits for its first notification and the cursor is at c.
Running(c) ==
  /\ MeterInit("off")
  /\ BcdOff
  /\ main_pc = "done"
  /\ init_failed = {}
  /\ adc_task_handle = "AdcTask"
  /\ timerA_running = TRUE
  /\ timerB_running = TRUE
  /\ null_notify = FALSE
  /\ indice_ecg = c
  /\ obs_start = c
  /\ ecg_fires = 0
  /\ notify_value = 0
  /\ adc_pc = "ulTaskNotifyTake"
  /\ valor_adc = 0
  /\ voltage = FloatZero
  /\ buffer = ""
  /\ adc_fires = 0
  /\ missed = 0
  /\ take_log = <<>>
  /\ adc_reads = <<>>
  /\ uart_lines = <<>>

\* The playback channel alone, watched from any cursor position.
InitLap ==
  \E c \in 0..(BUFFER_SIZE - 1) :
    /\ Running(c)
    /\ dac_out = IF c = 0 THEN NoValue ELSE ecg[c]
    /\ calls = IF c = 0 THEN {} ELSE {Call("isr", "AnalogOutputWrite")}

NextLap == ecg_fires < MaxLapFires /\ TimerEcgCallback

SpecLap == InitLap /\ [][NextLap]_vars

\* One acquisition period, over every code of the converter.
InitFmt ==
  /\ Running(0)
  /\ dac_out = NoValue
  /\ calls = {}

NextFmt ==
  \/ (adc_fires = 0 /\ TimerAdcCallback)
  \/ AdcTask(AdcCodes)

SpecFmt == InitFmt /\ [][NextFmt]_vars

\* The whole program over a few periods of each timer.
NextChannels ==
  \/ app_main({FALSE})
  \/ (ecg_fires < MaxChannelFires /\ TimerEcgCallback)
  \/ (adc_fires < MaxChannelFires /\ TimerAdcCallback)
  \/ AdcTask(AdcSamples)

SpecChannels == Init /\ [][NextChannels]_vars

\* The code read where only the scheduling is followed
LiveSamples == {0}

\* The running program with AdcTask scheduled fairly: it is the only task
\* that is ever ready, so a statement of it that can run does run.
NextLive ==
  \/ (adc_fires < MaxLiveFires /\ TimerAdcCallback)
  \/ (ecg_fires < MaxLiveEcgFires /\ TimerEcgCallback)
  \/ AdcTask(LiveSamples)

SpecLive == InitFmt /\ [][NextLive]_vars /\ WF_vars(AdcTask(LiveSamples))

\* The whole program, any configuration call of a driver failing.
NextBoot ==
  \/ app_main(BOOLEAN)
  \/ (ecg_fires < MaxBootFires /\ TimerEcgCallback)
  \/ (adc_fires < MaxBootFires /\ TimerAdcCallback)
  \/ AdcTask(AdcSamples)

SpecBoot == Init /\ [][NextBoot]_vars

\* The oscilloscope not running
OscOff ==
  /\ main_pc = "off"
  /\ init_failed = {}
  /\ adc_task_handle = "NULL"
  /\ timerA_running = FALSE
  /\ timerB_running = FALSE
  /\ null_notify = FALSE
  /\ indice_ecg = 0
  /\ dac_out = NoValue
  /\ obs_start = 0
  /\ ecg_fires = 0
  /\ notify_value = 0
  /\ adc_pc = "not created"
  /\ valor_adc = 0
  /\ voltage = FloatZero
  /\ buffer = ""
  /\ adc_fires = 0
  /\ missed = 0
  /\ take_log = <<>>
  /\ adc_reads = <<>>
  /\ uart_lines = <<>>
  /\ calls = {}

\* A distance meter, in each of its versions.
InitMeter ==
  /\ \E version \in DOMAIN MeterCalls : MeterInit(version)
  /\ BcdOff
  /\ OscOff

NextMeter ==
  \/ MeterMain
  \/ (timer_fires < MaxTimerFires /\ TimerCallback)
  \/ (toggles1 < MaxToggles /\ AtiendoTecla1)
  \/ (toggles2 < MaxToggles /\ AtiendoTecla2)
  \/ (toggles1 < MaxToggles /\ toggles2 < MaxToggles /\ FuncTeclasRead)
  \/ FuncTeclasStore
  \/ (meter = "polled" /\ key_changes < MaxKeyChanges /\ SwitchChange)
  \/ (polls < MaxPolls /\ TeclasTask)
  \/ LedTaskTake
  \/ LedTaskMeasure(DistanceSamples)
  \/ LedTaskSend
  \/ LedTaskLeds
  \/ LedTaskDisplay
  \/ (cycles < MaxCycles /\ LedTaskDelay)

SpecMeter == InitMeter /\ [][NextMeter]_vars

\* The polled distance meter alone: no timer, no interrupt, no serial port.
InitPolled ==
  /\ MeterInit("polled")
  /\ BcdOff
  /\ OscOff

NextPolled ==
  \/ MeterMain
  \/ (key_changes < MaxKeyChanges /\ SwitchChange)
  \/ (polls < MaxPolls /\ TeclasTask)
  \/ LedTaskMeasure(DistanceSamples)
  \/ LedTaskLeds
  \/ LedTaskDisplay
  \/ (cycles < MaxCycles /\ LedTaskDelay)

SpecPolled == InitPolled /\ [][NextPolled]_vars

\* The distances HcSr04ReadDistanceInCentimeters may return
Distances == (0..MaxDistance) \cup {UINT16_MAX}

\* app_main has returned, LedTask is about to measure, the LEDs are in any
\* state.
InitLeds ==
  /\ meter \in DOMAIN MeterCalls
  /\ meter_pc = Len(MeterCalls[meter]) + 1
  /\ sw_int = IF meter = "polled" THEN {} ELSE SWITCHES
  /\ uart_int = (meter = "serial")
  /\ led_task_handle = "LedTask"
  /\ teclas_task_handle = IF meter = "polled" THEN "TeclasTask" ELSE "NULL"
  /\ timer_running = (meter # "polled")
  /\ hold_lcd \in BOOLEAN
  /\ medicion_activa \in BOOLEAN
  /\ led_notify = 0
  /\ led_null_notify = FALSE
  /\ led_pc = "medicion_activa"
  /\ distancia = 0
  /\ obs_activa = TRUE
  /\ leds \in SUBSET LEDS
  /\ lcd = NoValue
  /\ serial_line = ""
  /\ teclas = {}
  /\ teclas_pc = IF meter = "polled" THEN "SwitchesRead" ELSE "not created"
  /\ tecla1_anterior = FALSE
  /\ tecla2_anterior = FALSE
  /\ func_pc = "idle"
  /\ func_value = FALSE
  /\ toggles1 = 0
  /\ toggles2 = 0
  /\ timer_fires = 0
  /\ cycles = 0
  /\ lcd_writes = 0
  /\ sensor_reads = 0
  /\ polls = 0
  /\ key_changes = 0
  /\ last_read = {}
  /\ BcdOff
  /\ OscOff

\* One cycle of LedTask, over every distance.
NextLeds ==
  \/ LedTaskMeasure(Distances)
  \/ LedTaskSend
  \/ LedTaskLeds
  \/ LedTaskDisplay

SpecLeds == InitLeds /\ [][NextLeds]_vars

\* The numbers convertToBcdArray is called with
BcdData ==
  {U32(n) : n \in {0, 5, 9, 10, 99, 100, 682, 999, 1000, 65535, 65536, 999999999,
                   1000000000, 1410065407, 1410065408, 2000000000, INT_MAX}}
    \cup {[hi |-> HALF - 1, lo |-> HALF - 1]}

\* convertToBcdArray about to be called; the array holds what was there.
InitBcd ==
  /\ bcd_pc = "call"
  /\ data \in BcdData
  /\ digits \in 0..MaxBcdDigits
  /\ \E old \in {0, 255} : bcd_number = [i \in 1..digits |-> old]
  /\ bcd_result = 0
  /\ DisplayOff
  /\ MeterInit("off")
  /\ OscOff

NextBcd == convertToBcdArray

SpecBcd == InitBcd /\ [][NextBcd]_vars

\* DisplayNumberOnLcd about to call convertToBcdArray: bcd_array holds what
\* was on the stack, sel_gpio has one pin for each digit, the select pins are
\* off and the BCD pins in any state.
InitDisplay ==
  /\ bcd_pc = "call"
  /\ data \in BcdData
  /\ digits \in 0..MaxBcdDigits
  /\ \E old \in {0, 255} : bcd_number = [i \in 1..digits |-> old]
  /\ bcd_result = 0
  /\ display_pc = "convertToBcdArray"
  /\ display_i = 0
  /\ display_j = 0
  /\ bcd_i = 0
  /\ sel_on = {}
  /\ bcd_on \in {{}, 0..(N_BITS - 1)}
  /\ gpio_writes = <<>>
  /\ MeterInit("off")
  /\ OscOff

NextDisplay == DisplayNumberOnLcd

SpecDisplay == InitDisplay /\ [][NextDisplay]_vars

\* The start-up of each program that paces a task with a timer (and of the
\* polled distance meter), every call succeeding.
InitStart == Init \/ InitMeter

NextStart ==
  \/ app_main({FALSE})
  \/ (ecg_fires < MaxBootFires /\ TimerEcgCallback)
  \/ (adc_fires < MaxBootFires /\ TimerAdcCallback)
  \/ AdcTask(AdcSamples)
  \/ NextMeter

SpecStart == InitStart /\ [][NextStart]_vars

(***************************************************************************)
(* Properties                                                              *)
(***************************************************************************)
\* The firings covered by the takes before the i-th one
FiresBefore(i) == IF i = 1 THEN 0 ELSE take_log[i - 1].fires

\* raw * 3.3 / 4095 rounded to three decimals, as a line of text
RefLine(raw) ==
  LET t == RoundDiv(raw * 3300, ADC_FULL_SCALE)
  IN  IntStr(t \div 1000) \o "." \o Digit((t \div 100) % 10) \o Digit((t \div 10) % 10)
        \o Digit(t % 10) \o "\r\n"

\* C1: in every reachable state, whatever the interleaving of playback
\* firings, acquisition firings and AdcTask steps, 0 <= indice_ecg < 231, so
\* ecg[indice_ecg] is read inside the table.
C1_CursorInRange == indice_ecg \in 0..(BUFFER_SIZE - 1)

\* More than one lap of the table has been played while samples were
\* acquired and reported.
C1_Witness ==
  /\ ecg_fires = BUFFER_SIZE + 1
  /\ indice_ecg = 1
  /\ adc_fires > 0
  /\ uart_lines # <<>>

\* C2: from every cursor position c in [0, 231) one playback firing moves
\* the cursor to (c + 1) mod 231 (230 goes to 0, never 231), and the cursor
\* is back at c after exactly 231 firings, not earlier.
C2_CursorCycle ==
  /\ ecg_fires = 1 => indice_ecg = (obs_start + 1) % BUFFER_SIZE
  /\ ecg_fires = 1 /\ obs_start = BUFFER_SIZE - 1 => indice_ecg = 0
  /\ indice_ecg # BUFFER_SIZE
  /\ ecg_fires \in 1..(BUFFER_SIZE - 1) => indice_ecg # obs_start
  /\ ecg_fires = BUFFER_SIZE => indice_ecg = obs_start

\* The cursor started at the last index and is back there after 231 firings.
C2_Witness ==
  /\ obs_start = BUFFER_SIZE - 1
  /\ ecg_fires = BUFFER_SIZE
  /\ indice_ecg = BUFFER_SIZE - 1

\* C3: counting playback firings from 0 after start-up, the k-th firing
\* writes ecg[k mod 231] to the analog output, whatever the acquisition
\* channel does in between.
C3_KthSample ==
  /\ ecg_fires = 0 => dac_out = NoValue
  /\ ecg_fires > 0 => dac_out = ecg[((ecg_fires - 1) % BUFFER_SIZE) + 1]

\* Firing number 231 (the first of the second lap) wrote ecg[0] again, with
\* the acquisition channel active in between.
C3_Witness ==
  /\ ecg_fires = BUFFER_SIZE + 1
  /\ dac_out = ecg[1]
  /\ adc_reads # <<>>

\* C4: all the firings of the acquisition timer that are pending when
\* AdcTask returns from ulTaskNotifyTake are consumed by that one return:
\* every return covers at least one new firing and all firings so far, it is
\* followed by exactly one ADC read and one serial line, and back in
\* ulTaskNotifyTake the task blocks until the timer fires again.
C4_CoalescedWake ==
  /\ \A i \in 1..Len(take_log) :
       /\ take_log[i].fires > FiresBefore(i)
       /\ take_log[i].fires <= adc_fires
  /\ adc_pc = "ulTaskNotifyTake" /\ adc_fires = FiresBefore(Len(take_log) + 1)
       => ~Notified
  /\ Len(adc_reads) =
       Len(take_log) - (IF adc_pc = "AnalogInputReadSingle" THEN 1 ELSE 0)
  /\ Len(uart_lines) =
       Len(take_log) - (IF adc_pc \in {"AnalogInputReadSingle", "voltage", "sprintf",
                                       "UartSendString"} THEN 1 ELSE 0)

\* The timer fired twice while AdcTask was busy with its first sample; the
\* task then woke once, sent one line for both firings and blocks again.
C4_Witness ==
  /\ Len(take_log) = 2
  /\ take_log[2].missed = 2
  /\ take_log[2].fires - take_log[1].fires = 2
  /\ adc_pc = "ulTaskNotifyTake"
  /\ ~Notified
  /\ Len(adc_reads) = 2
  /\ Len(uart_lines) = 2

\* C5 as stated: at most one notification is ever pending, and a give while
\* one is pending leaves the notification value unchanged.
C5_BinaryChannel ==
  [][/\ notify_value' <= 1
     /\ (adc_fires' = adc_fires + 1 /\ notify_value >= 1
           => notify_value' = notify_value)]_vars

\* C5 as amended: the notification value counts the gives (each firing adds
\* one, also while one is pending), and a return of ulTaskNotifyTake needs a
\* value that is not 0 and resets it to 0, so the gives pending at a return
\* are consumed together.
C5_CountedThenCleared ==
  [][/\ (adc_fires' = adc_fires + 1 => notify_value' = notify_value + 1)
     /\ (Len(take_log') = Len(take_log) + 1
           => notify_value >= 1 /\ notify_value' = 0)]_vars

\* A return of ulTaskNotifyTake has just cleared a count of two.
C5_Witness ==
  /\ adc_pc = "AnalogInputReadSingle"
  /\ take_log # <<>>
  /\ take_log[Len(take_log)].fires - FiresBefore(Len(take_log)) = 2
  /\ notify_value = 0

\* C6: every serial line follows the ADC read that produced its value, every
\* ADC read follows a timer firing that no earlier read consumed, and the
\* lines sent are the values read, in the same order, none twice.
C6_SamplesInOrder ==
  /\ Len(uart_lines) <= Len(adc_reads)
  /\ Len(adc_reads) <= Len(uart_lines) + 1
  /\ \A i \in 1..Len(uart_lines) : uart_lines[i] = RefLine(adc_reads[i])
  /\ Len(adc_reads) <= Len(take_log)
  /\ \A i \in 1..Len(take_log) :
       /\ take_log[i].fires > FiresBefore(i)
       /\ take_log[i].fires <= adc_fires

\* Three samples with different values were read and reported in order.
C6_Witness ==
  /\ adc_reads = <<0, ADC_FULL_SCALE, 0>>
  /\ uart_lines = <<"0.000\r\n", "3.300\r\n", "0.000\r\n">>

\* C7: the analog read, the formatting and the UART send are never made in
\* interrupt context; TimerAdcCallback only gives the notification.
C7_NoConversionInIsr ==
  /\ \A f \in {"AnalogInputReadSingle", "sprintf", "UartSendString", "ulTaskNotifyTake"} :
       Call("isr", f) \notin calls
  /\ adc_fires > 0 => Call("isr", "vTaskNotifyGiveFromISR") \in calls
  /\ adc_reads # <<>> => Call("task", "AnalogInputReadSingle") \in calls
  /\ uart_lines # <<>> =>
       Call("task", "sprintf") \in calls /\ Call("task", "UartSendString") \in calls
  /\ adc_reads = <<>> => valor_adc = 0

\* The callback has notified and the task has read, formatted and sent.
C7_Witness ==
  /\ Call("isr", "vTaskNotifyGiveFromISR") \in calls
  /\ Call("task", "AnalogInputReadSingle") \in calls
  /\ Call("task", "UartSendString") \in calls
  /\ uart_lines # <<>>

\* C8: for every raw code in 0..4095 the line AdcTask sends is
\* raw * 3.3 / 4095 rounded to three decimals followed by CR LF; 0 gives
\* "0.000", 4095 gives "3.300" and 2048 gives "1.650".
C8_VoltageLine ==
  /\ adc_pc = "UartSendString" =>
       /\ buffer = RefLine(valor_adc)
       /\ valor_adc = 0 => buffer = "0.000\r\n"
       /\ valor_adc = 2048 => buffer = "1.650\r\n"
       /\ valor_adc = ADC_FULL_SCALE => buffer = "3.300\r\n"
  /\ \A i \in 1..Len(uart_lines) : uart_lines[i] = RefLine(adc_reads[i])

\* The code 2048 was read and sent as 1.650.
C8_Witness ==
  /\ adc_reads = <<2048>>
  /\ uart_lines = <<"1.650\r\n">>

\* Lines of one integer digit, a point, three decimals and CR LF
OneDigitLines ==
  {Digit(a) \o "." \o Digit(b) \o Digit(c) \o Digit(d) \o "\r\n" :
     a \in 0..9, b \in 0..9, c \in 0..9, d \in 0..9}

\* C9: for every 12 bit code stored in valor_adc the formatted string has
\* one integer digit, a decimal point, three decimals and CR LF, and with
\* its NUL takes at most 10 bytes, which the 32 byte buffer holds.
C9_LineFitsBuffer ==
  adc_pc = "UartSendString" =>
    /\ buffer \in OneDigitLines
    /\ Len(buffer) + 1 <= 10
    /\ Len(buffer) + 1 <= BUFFER_LEN

\* The largest code has been formatted.
C9_Witness ==
  /\ adc_pc = "UartSendString"
  /\ valor_adc = ADC_FULL_SCALE
  /\ buffer = "3.300\r\n"

\* C10 as stated: once a configuration call has failed no timer is started
\* and AdcTask neither reads nor transmits.
C10_AbortOnInitFailure ==
  init_failed # {} =>
    /\ ~timerA_running
    /\ ~timerB_running
    /\ adc_reads = <<>>
    /\ uart_lines = <<>>

\* C11: AdcTask waiting in ulTaskNotifyTake with nothing pending is the only
\* place where the program blocks: a started timer's callback can always run,
\* whatever AdcTask is doing, and the calls AdcTask makes after its wait
\* (the computation of voltage between them is plain arithmetic) can always
\* run; a playback firing is one step, so in every state AdcTask can see the
\* DAC holds the table entry just before the cursor.
C11_OnlyTakeBlocks ==
  /\ timerB_running => ENABLED TimerEcgCallback
  /\ timerA_running => ENABLED TimerAdcCallback
  /\ adc_pc = "ulTaskNotifyTake" => (ENABLED AdcTaskTake <=> notify_value > 0)
  /\ adc_pc = "AnalogInputReadSingle" => ENABLED AdcTaskRead(AdcSamples)
  /\ adc_pc = "sprintf" => ENABLED AdcTaskSprintf
  /\ adc_pc = "UartSendString" => ENABLED AdcTaskSend
  /\ ecg_fires > 0 => dac_out = ecg[((indice_ecg + BUFFER_SIZE - 1) % BUFFER_SIZE) + 1]

\* Playback has fired while AdcTask was between its read and its send, with
\* another acquisition firing already pending.
C11_Witness ==
  /\ adc_pc = "sprintf"
  /\ Len(adc_reads) = 1
  /\ adc_fires = 2
  /\ notify_value = 1
  /\ ecg_fires = 2

\* C12: acquisition steps leave the playback cursor and output alone,
\* playback firings leave valor_adc, the notification and AdcTask alone, and
\* whatever the interleaving the playback output is the table entry of the
\* firing count and the lines sent are those of the values read.
C12_ChannelsIndependent ==
  [][/\ (adc_fires' # adc_fires \/ taskVars' # taskVars)
          => UNCHANGED <<indice_ecg, dac_out, ecg_fires>>
     /\ ecg_fires' # ecg_fires => UNCHANGED <<taskVars, notifyVars>>
     /\ indice_ecg' = ecg_fires' % BUFFER_SIZE
     /\ ecg_fires' > 0 => dac_out' = ecg[((ecg_fires' - 1) % BUFFER_SIZE) + 1]
     /\ \A i \in 1..Len(uart_lines') : uart_lines'[i] = RefLine(adc_reads'[i])]_vars

\* Both channels have been active: two samples reported, three table
\* entries played.
C12_Witness ==
  /\ ecg_fires = 3
  /\ indice_ecg = 3
  /\ dac_out = ecg[3]
  /\ adc_reads = <<ADC_FULL_SCALE, 0>>
  /\ uart_lines = <<"3.300\r\n", "0.000\r\n">>

\* C13: from the ADC read to the UART send of its value exactly one sample
\* is in flight, valor_adc still holds the value read, and outside that
\* window every value read has been sent exactly once.
C13_OneSampleInFlight ==
  /\ adc_pc \in {"voltage", "sprintf", "UartSendString"} =>
       /\ Len(adc_reads) = Len(uart_lines) + 1
       /\ valor_adc = adc_reads[Len(adc_reads)]
  /\ adc_pc \notin {"voltage", "sprintf", "UartSendString"} =>
       Len(adc_reads) = Len(uart_lines)
  /\ adc_pc = "UartSendString" => buffer = RefLine(valor_adc)
  /\ \A i \in 1..Len(uart_lines) : uart_lines[i] = RefLine(adc_reads[i])

\* The second sample is about to be sent while two more firings arrived
\* since its read was triggered.
C13_Witness ==
  /\ adc_pc = "UartSendString"
  /\ adc_reads = <<0, ADC_FULL_SCALE>>
  /\ uart_lines = <<"0.000\r\n">>
  /\ valor_adc = ADC_FULL_SCALE
  /\ adc_fires = 3
  /\ notify_value > 0

\* C14 as stated: in the distance meters whose keys interrupt, with no
\* toggle half done, after n key 1 interrupts and 'O' commands
\* medicion_activa has its initial value (true) if n is even and its negation
\* if n is odd, and likewise hold_lcd (initially false) for key 2 and 'H'.
C14_NoToggleLost ==
  meter \in {"interrupts", "serial"} /\ func_pc = "idle" =>
    /\ medicion_activa = (toggles1 % 2 = 0)
    /\ hold_lcd = (toggles2 % 2 = 1)

DocumentedLeds(d) ==
  IF d < 10 THEN {}
  ELSE IF d < 20 THEN {"LED_1"}
  ELSE IF d < 30 THEN {"LED_1", "LED_2"}
  ELSE LEDS

\* C16: in a cycle of LedTask that finds hold_lcd true LcdItsE0803Write is
\* not called and the display keeps its number, which changes only in a
\* cycle that finds hold_lcd false; in both cases the LEDs have been set for
\* the distance of this cycle.
C16_HoldKeepsDisplay ==
  [][/\ (led_pc = "hold_lcd" /\ led_pc' # led_pc) =>
          /\ hold_lcd => lcd' = lcd /\ lcd_writes' = lcd_writes
          /\ ~hold_lcd => lcd' = distancia /\ lcd_writes' = lcd_writes + 1
          /\ leds = DocumentedLeds(distancia)
          /\ leds' = leds
     /\ (lcd' # lcd \/ lcd_writes' # lcd_writes) => led_pc = "hold_lcd" /\ ~hold_lcd]_vars

\* The first cycle wrote 30 to the display; the second found hold_lcd true,
\* lit LED_1 for its 15 cm and left the 30 on the display.
C16_Witness ==
  /\ cycles = 2
  /\ lcd_writes = 1
  /\ lcd = 30
  /\ distancia = 15
  /\ leds = {"LED_1"}
  /\ hold_lcd

\* data < 10^digits: data fits in that many decimal digits
Fits(number, n) == n >= 10 \/ LtU32(number, U32(10 ^ n))

\* C17 as stated: convertToBcdArray returns -1 exactly when data does not
\* fit in the digits given, leaving the array as it was, and 0 otherwise,
\* also for 10 digits and more.
C17_ErrorIffTooLong ==
  [][bcd_pc = "call" /\ bcd_pc' = "return" =>
       /\ bcd_result' = IF Fits(data, digits) THEN 0 ELSE -1
       /\ bcd_result' = -1 => bcd_number' = bcd_number]_vars

RECURSIVE DecimalValue(_, _)
\* The sum of out[i] * 10^(digits - 1 - i) over the first n entries, as a
\* pair of halves with an unbounded high half
DecimalValue(out, n) ==
  IF n = 0 THEN [hi |-> 0, lo |-> 0]
  ELSE LET rest == DecimalValue(out, n - 1)
           low == rest.lo * 10 + out[n]
       IN  [hi |-> rest.hi * 10 + (low \div HALF), lo |-> low % HALF]

\* C18: when convertToBcdArray has returned 0 the array holds digits
\* entries in 0..9 whose decimal value, most significant first, is data.
C18_DigitsOfData ==
  bcd_pc = "return" /\ bcd_result = 0 =>
    /\ Len(bcd_number) = digits
    /\ \A i \in 1..digits : bcd_number[i] \in 0..9
    /\ DecimalValue(bcd_number, digits) = data

\* 682 in five digits: 0 0 6 8 2.
C18_Witness ==
  /\ bcd_pc = "return"
  /\ bcd_result = 0
  /\ data = U32(682)
  /\ digits = 5
  /\ bcd_number = <<0, 0, 6, 8, 2>>

\* The k-th firing has been served: a return of ulTaskNotifyTake covers it
\* and the read and the line of that return have been made.
Served(k) ==
  \E i \in 1..Len(take_log) :
    /\ take_log[i].fires >= k
    /\ Len(adc_reads) >= i
    /\ Len(uart_lines) >= i

\* C19: with AdcTask scheduled fairly every firing of the acquisition timer
\* is eventually followed by an ADC read and a serial line, a pending
\* notification is eventually consumed, and every return of ulTaskNotifyTake
\* has a firing before it that no earlier return covered.
C19_EveryFiringServed ==
  /\ \A k \in 1..MaxLiveFires : (adc_fires >= k) ~> Served(k)
  /\ (notify_value > 0) ~> (notify_value = 0)
  /\ [](\A i \in 1..Len(take_log) : take_log[i].fires > FiresBefore(i))

\* Every firing explored has been served and AdcTask waits again.
C19_Witness ==
  /\ adc_fires = MaxLiveFires
  /\ Served(MaxLiveFires)
  /\ Len(uart_lines) = MaxLiveFires
  /\ adc_pc = "ulTaskNotifyTake"
  /\ notify_value = 0

C21_PausedCycleUsesZero ==
  [][/\ (led_pc = "medicion_activa" /\ led_pc' # led_pc /\ ~medicion_activa) =>
          /\ ~obs_activa'
          /\ sensor_reads' = sensor_reads
          /\ distancia' = 0
     /\ (~obs_activa /\ led_pc \in {"UartSendString", "ActualizarLeds", "hold_lcd"}) =>
          /\ sensor_reads' = sensor_reads
          /\ distancia = 0 /\ distancia' = 0
     /\ (~obs_activa /\ led_pc = "ActualizarLeds" /\ led_pc' # led_pc) => leds' = {}
     /\ (~obs_activa /\ led_pc = "hold_lcd" /\ led_pc' # led_pc) =>
          /\ leds = {} /\ leds' = {}
          /\ ~hold_lcd => lcd' = 0 /\ lcd_writes' = lcd_writes + 1
          /\ hold_lcd => lcd' = lcd]_vars

\* The first cycle measured 30 cm, lit the three LEDs and wrote 30; the
\* measurement was then paused and the second cycle, without reading the
\* sensor, turned the LEDs off and wrote 0.
C21_Witness ==
  /\ cycles = 2
  /\ sensor_reads = 1
  /\ ~obs_activa
  /\ ~medicion_activa
  /\ ~hold_lcd
  /\ distancia = 0
  /\ leds = {}
  /\ lcd = 0
  /\ lcd_writes = 2

\* A poll of TeclasTask finds key k pressed after the previous poll found it
\* released (no poll yet counts as released).
RisingEdge(k) == k \in teclas /\ k \notin last_read

\* C22: in the polled meter the flags change only in a poll of TeclasTask,
\* and only on a rising edge: a poll flips medicion_activa exactly when it
\* reads key 1 pressed and the previous poll read it released, and hold_lcd
\* exactly when the same holds of key 2.  So a key held across consecutive
\* polls flips its flag once, the flag flips again only after a poll has
\* read the key released, and neither key changes the flag of the other.
C22_RisingEdgesOnly ==
  [][meter = "polled" =>
       /\ polls' # polls =>
            /\ (medicion_activa' # medicion_activa) <=> RisingEdge("SWITCH_1")
            /\ (hold_lcd' # hold_lcd) <=> RisingEdge("SWITCH_2")
            /\ last_read' = teclas
       /\ polls' = polls => medicion_activa' = medicion_activa /\ hold_lcd' = hold_lcd]_vars

\* Key 1 was pressed once and has been read pressed by three polls in a row:
\* the measurement was paused by the first and stays paused; hold_lcd never
\* changed.
C22_Witness ==
  /\ meter = "polled"
  /\ polls = 3
  /\ key_changes = 1
  /\ teclas = {"SWITCH_1"}
  /\ last_read = {"SWITCH_1"}
  /\ toggles1 = 1
  /\ ~medicion_activa
  /\ ~hold_lcd

RECURSIVE DivTenTimes(_, _)
\* number / 10^k on unsigned int
DivTenTimes(number, k) == IF k = 0 THEN number ELSE DivTenTimes(Div10(number), k - 1)

\* Decimal digit i of number written in n digits, digit 0 the most significant
DigitOf(number, n, i) == Mod10(DivTenTimes(number, n - 1 - i))

\* The pin writes of step i: select pin i on and the others off, then BCD
\* pin b to bit b of digit i
StepWrites(number, n, i) ==
  [j \in 1..n |-> [vector |-> "sel_gpio", pin |-> j - 1, on |-> (j - 1 = i)]]
    \o [b \in 1..N_BITS |->
          [vector |-> "bcd_gpio", pin |-> b - 1,
           on |-> (DigitOf(number, n, i) \div (2 ^ (b - 1))) % 2 = 1]]

RECURSIVE DisplayWrites(_, _, _)
\* The pin writes of steps i .. n - 1, in order
DisplayWrites(number, n, i) ==
  IF i >= n THEN <<>> ELSE StepWrites(number, n, i) \o DisplayWrites(number, n, i + 1)

IsPrefix(s, t) == Len(s) <= Len(t) /\ SubSeq(t, 1, Len(s)) = s

\* The BCD pins that are on when they carry digit d
PinsOf(d) == {b \in 0..(N_BITS - 1) : (d \div (2 ^ b)) % 2 = 1}

\* What DisplayNumberOnLcd does to the pins, given that the number is shown
\* when shown is true and refused otherwise.
DisplayContract(shown) ==
  /\ Cardinality(sel_on) <= 1
  /\ display_pc \in {"select", "BCDtoGPIO"} =>
       IsPrefix(gpio_writes, DisplayWrites(data, digits, 0))
  /\ display_pc = "BCDtoGPIO" => sel_on = {display_i}
  /\ (display_pc = "select" /\ display_j = 0 /\ display_i > 0) =>
       bcd_on = PinsOf(DigitOf(data, digits, display_i - 1))
  /\ display_pc = "return" =>
       gpio_writes = IF shown THEN DisplayWrites(data, digits, 0) ELSE <<>>
  /\ (display_pc = "return" /\ shown /\ digits > 0) =>
       bcd_on = PinsOf(DigitOf(data, digits, digits - 1)) /\ sel_on = {digits - 1}

\* C23 as stated: DisplayNumberOnLcd writes no pin when the number does not
\* fit in the digits; when it fits it handles digits 0 .. digits - 1 in
\* order, for digit i turning select pin i on and the other select pins off
\* and then driving BCD pin b to bit b of the digit, so that at most one
\* select pin is on at any moment and the BCD pins carry digit i at the end
\* of step i.
C23_DisplayWrites == DisplayContract(Fits(data, digits))

\* The same for the numbers of digits whose power of ten an int holds.
DisplayUpToNineDigits == digits <= 9 => DisplayContract(Fits(data, digits))

\* 682 has been shown in three digits: the last step left select pin 2 on
\* and 2 (binary 0010) on the BCD pins.
DisplayShown ==
  /\ display_pc = "return"
  /\ data = U32(682)
  /\ digits = 3
  /\ Len(gpio_writes) = 21
  /\ sel_on = {2}
  /\ bcd_on = {1}

====
